---- MODULE Spec2Model ----
(***************************************************************************)
(* Model of the ABCD gate and of the campaign store of                     *)
(* konradsoares/lotofacil_github.                                          *)
(*                                                                         *)
(*   Spec      the daily runner (abcd_runner.py): draws arrive, and each   *)
(*             run calls update_campaigns and then maybe_start_campaign    *)
(*             on the persisted campaign store.                            *)
(*   SpecGate  compute_abcd_gate_stats of fechamento_simples applied to    *)
(*             every history of draws, window and percentile pair.         *)
(*             Percentiles are kept exact, in hundredths.                  *)
(*                                                                         *)
(* The lottery is scaled down: Balls replaces 1..25 and a draw or a game   *)
(* holds GameSize balls instead of 15, so the number of hits of a game     *)
(* ranges over 2*GameSize - |Balls| .. GameSize.  Dates are abstracted by  *)
(* the integer clock `now` (the second of the wall clock) and a draw's     *)
(* date by its concurso.                                                   *)
(***************************************************************************)
EXTENDS Integers, Sequences, FiniteSets, TLC

\* ---------------------------------------------------------------- bounds
MaxDraws == 3
MaxCampaigns == 2
MaxClock == 1
MaxGateDraws == 10

\* ------------------------------------------------------- scaled constants
Balls == 1..5
GameSize == 3
DrawSets == {{1, 2, 3}, {1, 3, 5}}
Skips == {1, 2}
Teimosinhas == {2, 3}
MinHitsStops == {2, 3}
NoneVal == -1
GroupA == 1
GroupBCD == 2
MinPrizeHits == 2
Premios == (2 :> 2) @@ (3 :> 20)
GateTeimosinhas == {1, 2}
GatePercentis == {<<25, 75>>, <<40, 60>>, <<0, 100>>}

\* mutant of MinDraws: the floor is the longest window plus two
MinDraws_window ==
    (CHOOSE n \in GateTeimosinhas : \A k \in GateTeimosinhas : k <= n) + 2

MinDraws == 10

VARIABLES
    draws,          \* the draws loaded from the XLSX, sorted by concurso
    gate_pass,      \* the gate decision main derives from the current draws
    state,          \* the persisted store docs/state/abcd_campaigns.json
    now,            \* the wall clock, in seconds
    pc,             \* position of main between its two store operations
    teimosinha,     \* --teimosinha of the runs
    min_hits_stop,  \* --min_hits_stop of the runs
    gate_percentis, \* the percentile pair of the gate
    stats           \* what compute_abcd_gate_stats returned for the draws

vars == <<draws, gate_pass, state, now, pc, teimosinha, min_hits_stop,
          gate_percentis, stats>>

\* ---------------------------------------------------------------- helpers
Min(a, b) == IF a <= b THEN a ELSE b

SetMax(S) == CHOOSE x \in S : \A y \in S : y <= x

Range(s) == {s[i] : i \in DOMAIN s}

\* sorted(S, key=...) for a key function with distinct values
RECURSIVE SortedSeq(_, _)
SortedSeq(S, key) ==
    IF S = {} THEN <<>>
    ELSE LET x == CHOOSE a \in S : \A b \in S : key[a] <= key[b]
         IN <<x>> \o SortedSeq(S \ {x}, key)

\* ------------------------------------------------------------- strategy
\* freq[n] over the draws (the window of 200 never binds at these sizes)
Freq(ds, n) == Cardinality({i \in DOMAIN ds : n \in ds[i].set})

\* most frequent first, ties by smaller n: key (-freq, n)
_freq_rank(ds) ==
    SortedSeq(Balls, [n \in Balls |-> (0 - Freq(ds, n)) * 100 + n])

LastPos(ds, n) ==
    LET S == {i \in DOMAIN ds : n \in ds[i].set}
    IN IF S = {} THEN NoneVal ELSE SetMax(S)

Delay(ds, n) == IF LastPos(ds, n) = NoneVal THEN 10000 ELSE Len(ds) - LastPos(ds, n)

\* largest delay first, ties by smaller n: key (-delay(n), n)
_delay_rank(ds) ==
    SortedSeq(Balls, [n \in Balls |-> (0 - Delay(ds, n)) * 100 + n])

\* the first k elements of base that are not excluded, as a set
RECURSIVE _pick_unique(_, _, _)
_pick_unique(base, k, exclude) ==
    IF base = <<>> \/ k <= 0 THEN {}
    ELSE IF Head(base) \in exclude THEN _pick_unique(Tail(base), k, exclude)
    ELSE {Head(base)} \cup _pick_unique(Tail(base), k - 1, exclude)

\* interleave of the two ranks, without repetitions
RECURSIVE Interleave(_, _, _)
Interleave(f, d, seen) ==
    IF f = <<>> THEN <<>>
    ELSE LET a == IF Head(f) \in seen THEN <<>> ELSE <<Head(f)>>
             s1 == seen \cup {Head(f)}
             b == IF Head(d) \in s1 THEN <<>> ELSE <<Head(d)>>
         IN a \o b \o Interleave(Tail(f), Tail(d), s1 \cup {Head(d)})

\* AB, AC and BCD of build_abcd_games, 8+7 and 5+5+5 scaled to 2+1 and 1+1+1
\* (AD, drawn with the seeded generator, is left out)
build_abcd_games(ds) ==
    LET freq == _freq_rank(ds)
        delay == _delay_rank(ds)
        mixed == Interleave(freq, delay, {})
        a == _pick_unique(freq, GameSize - 1, {})
        b1 == _pick_unique(delay, 1, {})
        c1 == _pick_unique(mixed, 1, b1)
    IN [AB |-> a \cup _pick_unique(delay, 1, a),
        AC |-> a \cup _pick_unique(mixed, 1, a),
        BCD |-> b1 \cup c1 \cup _pick_unique(freq, 1, b1 \cup c1)]

_hits(game, d) == Cardinality(game \cap d.set)

\* ------------------------------------------------------------------ gate
\* the keys of a dict, ordered by value, largest first (smallest first when
\* asc), ties in insertion order 1, 2, ...: sorted(d.items(), key=kv[1])
ByValue(d, asc) ==
    SortedSeq(DOMAIN d, [n \in DOMAIN d |->
                            (IF asc THEN d[n] ELSE 0 - d[n]) * 100 + n])

Take(s, n) == SubSeq(s, 1, Min(n, Len(s)))

_topn(rank_obj, n) == Range(Take(ByValue(rank_obj, FALSE), n))

_rank_frequency(ds) == [n \in Balls |-> Freq(ds, n)]

_rank_delay(ds) ==
    [n \in Balls |-> IF LastPos(ds, n) = NoneVal THEN Len(ds)
                     ELSE Len(ds) - LastPos(ds, n)]

\* the smallest numbers of the universe missing from s, until it has n
RECURSIVE FillSmallest(_, _, _)
FillSmallest(s, n, from) ==
    IF Cardinality(s) >= n \/ from > SetMax(Balls) THEN s
    ELSE FillSmallest(s \cup {from}, n, from + 1)

SmallestOf(s, n) == Range(Take(SortedSeq(s, [x \in s |-> x]), n))

\* A_global of _calc_recent_overlap_stats, top-5 scaled to top-GroupA
_calc_recent_overlap_stats(h) ==
    IF Len(h) < 2
    THEN LET base == SortedSeq(h[Len(h)].set, [x \in h[Len(h)].set |-> x])
             rest == SortedSeq(Balls \ Range(base), [x \in Balls \ Range(base) |-> x])
         IN Range(Take(base \o rest, GroupA))
    ELSE LET counts == [n \in Balls |->
                 Cardinality({i \in 2..Len(h) : n \in h[i - 1].set \cap h[i].set})]
             pos == [n \in {m \in Balls : counts[m] > 0} |-> counts[n]]
             top == _topn(pos, GroupA)
         IN FillSmallest(top, GroupA, 1)

\* the size-15 repair of a game, scaled to GameSize
Sanity(jogo) ==
    IF Cardinality(jogo) = GameSize THEN jogo
    ELSE IF Cardinality(jogo) > GameSize THEN SmallestOf(jogo, GameSize)
    ELSE FillSmallest(jogo, GameSize, 1)

_build_abcd_games_from_history(history) ==
    LET B == _topn(_rank_delay(history), GroupBCD)
        C == _topn(_rank_frequency(history), GroupBCD)
        D == Range(Take(ByValue(_rank_frequency(history), TRUE), GroupBCD))
        A == _calc_recent_overlap_stats(history)
    IN [jogo_A_B |-> Sanity(A \cup B),
        jogo_A_C |-> Sanity(A \cup C),
        jogo_A_D |-> Sanity(A \cup D),
        jogo_B_C_D |-> Sanity((B \cup C \cup D) \ A)]

\* the prize table of a draw; the lowest tier pays twice the bet
payout_for_hits(hits) == IF hits \in DOMAIN Premios THEN Premios[hits] ELSE 0

_infer_aposta15_custo == Premios[MinPrizeHits] \div 2

RECURSIVE SumSeq(_)
SumSeq(s) == IF s = <<>> THEN 0 ELSE Head(s) + SumSeq(Tail(s))

\* payout_r of base i on its r-th target (Python indices: draws[i + r])
PayoutR(ds, games, i, r, min_hits) ==
    LET alvo == ds[i + r + 1]
        names == SortedSeq(DOMAIN games, [k \in DOMAIN games |->
                    CHOOSE j \in 1..4 :
                        <<"jogo_A_B", "jogo_A_C", "jogo_A_D", "jogo_B_C_D">>[j] = k])
    IN SumSeq([j \in DOMAIN names |->
            LET k == Cardinality(games[names[j]] \cap alvo.set)
            IN IF k >= min_hits THEN payout_for_hits(k) ELSE 0])

\* mutant of History: the slice takes in the first target of the base
History_lookahead(ds, i) == SubSeq(ds, 1, i + 1)

\* history = draws[:i], the draws of Python indices 0..i-1
History(ds, i) == SubSeq(ds, 1, i)

\* profit of the walk-forward step of base i, played with its games
Profit(ds, games, i, teim, min_hits) ==
    SumSeq([r1 \in 1..teim |-> PayoutR(ds, games, i, r1 - 1, min_hits)])
    - SumSeq([r1 \in 1..teim |-> 4 * _infer_aposta15_custo])

\* mutant of Bases: the loop stops one base short
Bases_short(ds, teim) == 1..(Len(ds) - (teim - 1) - 2)

\* the bases of range(1, len(draws) - (teimosinha_n - 1))
Bases(ds, teim) == 1..(Len(ds) - (teim - 1) - 1)

\* one pass of the loop: the history handed to the strategy, the games it
\* returned and the Python indices draws[i + r] read as targets
WalkRow(ds, i, teim) ==
    [base |-> i,
     history |-> History(ds, i),
     games |-> _build_abcd_games_from_history(History(ds, i)),
     targets |-> {i + r : r \in 0..(teim - 1)}]

\* rows, one per pass, in the order of the loop
Walk(ds, teim) == [i \in Bases(ds, teim) |-> WalkRow(ds, i, teim)]

\* success_idx, in increasing order
SuccessIdx(ds, walk, teim, min_hits) ==
    LET S == {i \in DOMAIN walk :
                Profit(ds, walk[i].games, i, teim, min_hits) > 0}
    IN SortedSeq(S, [x \in S |-> x])

\* mutant of Gaps: zip over the whole list, so one success yields one gap
Gaps_from_zero(success_idx) ==
    [j \in 1..Len(success_idx) |->
        success_idx[j] - (IF j = 1 THEN 0 ELSE success_idx[j - 1])]

Gaps(success_idx) ==
    [j \in 1..(Len(success_idx) - 1) |-> success_idx[j + 1] - success_idx[j]]

\* sorted(values) of a list with repetitions
RECURSIVE Insert(_, _)
Insert(x, s) ==
    IF s = <<>> THEN <<x>>
    ELSE IF x <= Head(s) THEN <<x>> \o s
    ELSE <<Head(s)>> \o Insert(x, Tail(s))

RECURSIVE Sorted(_)
Sorted(s) == IF s = <<>> THEN <<>> ELSE Insert(Head(s), Sorted(Tail(s)))

\* _percentile in hundredths: k = (n-1) * p / 100 is kept as K = 100 * k
_percentile(values, p) ==
    IF values = <<>> THEN 0
    ELSE LET xs == Sorted(values)
             K == (Len(xs) - 1) * p
             f == K \div 100
             c == IF K % 100 = 0 THEN f ELSE f + 1
         IN IF p <= 0 THEN 100 * xs[1]
            ELSE IF p >= 100 THEN 100 * xs[Len(xs)]
            ELSE IF f = c THEN 100 * xs[f + 1]
            ELSE xs[f + 1] * (100 * c - K) + xs[c + 1] * (K - 100 * f)

\* ------------------------------------------------------ binary64 floats
\* A float is [m |-> limbs, e |-> exponent] and stands for Nat_(m) * 2^e;
\* the mantissa is a number in base 2^LimbBits, least significant limb
\* first, without leading zero limbs.  Every operation gives the exact
\* result rounded to MantBits bits, ties to even (the values of _percentile
\* are far from the subnormal and infinite ends).
MantBits == 53

LimbBits == 13

Base == 2 ^ LimbBits

RECURSIVE Strip(_)
Strip(a) ==
    IF a # <<>> /\ a[Len(a)] = 0 THEN Strip(SubSeq(a, 1, Len(a) - 1)) ELSE a

RECURSIVE Limbs(_)
Limbs(n) == IF n = 0 THEN <<>> ELSE <<n % Base>> \o Limbs(n \div Base)

\* the number that at most two limbs stand for
RECURSIVE Nat_(_)
Nat_(a) == IF a = <<>> THEN 0 ELSE Head(a) + Base * Nat_(Tail(a))

Rest(a) == IF a = <<>> THEN <<>> ELSE Tail(a)

Low(a) == IF a = <<>> THEN 0 ELSE Head(a)

RECURSIVE AddC(_, _, _)
AddC(a, b, carry) ==
    IF a = <<>> /\ b = <<>> THEN Limbs(carry)
    ELSE LET s == Low(a) + Low(b) + carry
         IN <<s % Base>> \o AddC(Rest(a), Rest(b), s \div Base)

\* a - b - borrow for a >= b + borrow
RECURSIVE SubB(_, _, _)
SubB(a, b, borrow) ==
    IF a = <<>> THEN <<>>
    ELSE LET d == Low(a) - Low(b) - borrow
         IN <<IF d < 0 THEN d + Base ELSE d>>
            \o SubB(Rest(a), Rest(b), IF d < 0 THEN 1 ELSE 0)

\* a * k + carry for a number k below Base
RECURSIVE MulSmall(_, _, _)
MulSmall(a, k, carry) ==
    IF a = <<>> THEN Limbs(carry)
    ELSE LET x == Head(a) * k + carry
         IN <<x % Base>> \o MulSmall(Tail(a), k, x \div Base)

\* long division of a by the small number d, from the top limb down
RECURSIVE DivStep(_, _, _, _, _)
DivStep(a, i, d, rem, q) ==
    IF i = 0 THEN [q |-> Strip(q), r |-> rem]
    ELSE LET x == rem * Base + a[i]
         IN DivStep(a, i - 1, d, x % d, <<x \div d>> \o q)

\* a * 2^s
Shl(a, s) ==
    IF a = <<>> THEN <<>>
    ELSE [i \in 1..(s \div LimbBits) |-> 0]
         \o Strip(MulSmall(a, 2 ^ (s % LimbBits), 0))

\* a \div 2^s
Shr(a, s) ==
    LET q == s \div LimbBits
        r == s % LimbBits
        at(i) == IF i \in DOMAIN a THEN a[i] ELSE 0
    IN Strip([i \in 1..(Len(a) - q) |->
                (at(i + q) \div 2 ^ r)
                + (at(i + q + 1) % 2 ^ r) * 2 ^ (LimbBits - r)])

\* the bit of weight 2^j of a
Bit(a, j) == (a[j \div LimbBits + 1] \div 2 ^ (j % LimbBits)) % 2

\* some bit of a of weight below 2^j is set
AnyBelow(a, j) ==
    \/ \E i \in 1..(j \div LimbBits) : a[i] # 0
    \/ a[j \div LimbBits + 1] % 2 ^ (j % LimbBits) # 0

BitLen(a) ==
    IF a = <<>> THEN 0
    ELSE LimbBits * (Len(a) - 1)
         + CHOOSE k \in 1..LimbBits :
               2 ^ (k - 1) <= a[Len(a)] /\ a[Len(a)] < 2 ^ k

\* a <= b for numbers without leading zero limbs
RECURSIVE LeqLimbs(_, _)
LeqLimbs(a, b) ==
    IF Len(a) # Len(b) THEN Len(a) < Len(b)
    ELSE IF a = <<>> THEN TRUE
    ELSE IF a[Len(a)] # b[Len(b)] THEN a[Len(a)] < b[Len(b)]
    ELSE LeqLimbs(Strip(SubSeq(a, 1, Len(a) - 1)),
                  Strip(SubSeq(b, 1, Len(b) - 1)))

\* a * 2^e rounded to MantBits bits; sticky = 1 when a non-zero part below
\* the lowest bit of a was already dropped
FRound(a, e, sticky) ==
    LET m == Strip(a)
        s == BitLen(m) - MantBits
    IN IF s <= 0 THEN [m |-> m, e |-> IF m = <<>> THEN 0 ELSE e]
       ELSE LET kept == Shr(m, s)
                half == Bit(m, s - 1)
                rest == sticky = 1 \/ AnyBelow(m, s - 1)
                up == half = 1 /\ (rest \/ kept[1] % 2 = 1)
            IN [m |-> IF up THEN AddC(kept, <<1>>, 0) ELSE kept, e |-> e + s]

FromInt(n) == [m |-> Limbs(n), e |-> 0]

\* the mantissa of x at the exponent e <= x.e
At(x, e) == Shl(x.m, x.e - e)

\* p / d for a whole number p and a small divisor d
FDivInt(p, d) ==
    LET n == Shl(Limbs(p), 5 * LimbBits)
        dv == DivStep(n, Len(n), d, 0, <<>>)
    IN FRound(dv.q, 0 - 5 * LimbBits, IF dv.r # 0 THEN 1 ELSE 0)

\* n * x for a whole number n below Base
FMulInt(n, x) == FRound(MulSmall(x.m, n, 0), x.e, 0)

FAdd(x, y) ==
    LET e == Min(x.e, y.e)
    IN FRound(AddC(At(x, e), At(y, e), 0), e, 0)

\* x - y for x >= y
FSub(x, y) ==
    LET e == Min(x.e, y.e)
    IN FRound(SubB(At(x, e), At(y, e), 0), e, 0)

FLeq(x, y) ==
    LET e == Min(x.e, y.e)
    IN LeqLimbs(Strip(At(x, e)), Strip(At(y, e)))

\* math.floor of a float below Base
FFloor(x) == IF x.e >= 0 THEN Nat_(At(x, 0)) ELSE Nat_(Shr(x.m, 0 - x.e))

\* _percentile as the interpreter computes it, in binary64
_percentile_f64(values, p) ==
    IF values = <<>> THEN FromInt(0)
    ELSE LET xs == Sorted(values)
             k == FMulInt(Len(xs) - 1, FDivInt(p, 100))
             f == FFloor(k)
             c == IF FLeq(k, FromInt(f)) THEN f ELSE f + 1
         IN IF p <= 0 THEN FromInt(xs[1])
            ELSE IF p >= 100 THEN FromInt(xs[Len(xs)])
            ELSE IF f = c THEN FromInt(xs[f + 1])
            ELSE FAdd(FMulInt(xs[f + 1], FSub(FromInt(c), k)),
                      FMulInt(xs[c + 1], FSub(k, FromInt(f))))

\* mutant of GatePass: the band is taken exclusive of its ends
GatePass_exclusive(gap_now, lo, hi) ==
    gap_now # NoneVal /\ 100 * gap_now > lo /\ 100 * gap_now < hi

\* mutant of GatePass: only the upper end of the band is compared
GatePass_upper(gap_now, lo, hi) ==
    gap_now # NoneVal /\ 100 * gap_now <= hi

\* gate_pass = (gap_now >= lo and gap_now <= hi), lo and hi in hundredths;
\* gap_now = NoneVal stands for float("inf")
GatePass(gap_now, lo, hi) ==
    gap_now # NoneVal /\ 100 * gap_now >= lo /\ 100 * gap_now <= hi

NoStats == [kind |-> "none"]

\* mutant of LastEvalIdx: the last eligible base is taken one base early
LastEvalIdx_early(ds, teim) == Len(ds) - teim - 1

\* last_eval_idx = len(draws) - teimosinha_n
LastEvalIdx(ds, teim) == Len(ds) - teim

compute_abcd_gate_stats(ds, teim, min_hits, percentis) ==
    IF Len(ds) < MinDraws
    THEN [kind |-> "gate", rows |-> 0, gaps |-> <<>>, success_idx |-> <<>>,
          walk |-> <<>>,
          pass |-> FALSE, reason |-> "Poucos concursos",
          faixa |-> <<0, 0>>, gap_atual |-> NoneVal]
    ELSE LET walk == Walk(ds, teim)
             success_idx == SuccessIdx(ds, walk, teim, min_hits)
             gaps == Gaps(success_idx)
             rows == Len(walk)
         IN IF gaps = <<>>
            THEN [kind |-> "gate", rows |-> rows, gaps |-> gaps,
                  success_idx |-> success_idx, walk |-> walk,
                  pass |-> FALSE, reason |-> "Sem sucessos suficientes",
                  faixa |-> <<0, 0>>, gap_atual |-> NoneVal]
            ELSE LET lo == _percentile(gaps, percentis[1])
                     hi == _percentile(gaps, percentis[2])
                     last_eval_idx == LastEvalIdx(ds, teim)
                     elig == {x \in Range(success_idx) : x <= last_eval_idx}
                     gap_now == IF elig = {} THEN NoneVal
                                ELSE last_eval_idx - SetMax(elig)
                 IN [kind |-> "gate", rows |-> rows, gaps |-> gaps,
                     success_idx |-> success_idx, walk |-> walk,
                     pass |-> GatePass(gap_now, lo, hi), reason |-> "",
                     faixa |-> <<lo, hi>>, gap_atual |-> gap_now]

\* --------------------------------------------------------- aposta16 gate
\* the exclusions of the pattern "resultado" and of the S16, scaled from
\* 3 of the 15 drawn, 2 of the 10 absent and 4 of the pool of 20
PoolExcDrawn == 1

PoolExcAbsent == 1

S16Exc == 1

\* _score_number in rank mode "mixed", freq + 0.25 * delay, times four
_score_number(n, freq, delay) == 4 * freq[n] + delay[n]

\* the k candidates of lowest (score, number)
_pick_exclusions(candidates, k, freq, delay) ==
    IF k <= 0 THEN {}
    ELSE IF Cardinality(candidates) <= k THEN candidates
    ELSE Range(Take(SortedSeq(candidates,
                 [n \in candidates |-> _score_number(n, freq, delay) * 100 + n]),
                 k))

build_pool20_for_base(base, history_until_base) ==
    LET freq == _rank_frequency(history_until_base)
        delay == _rank_delay(history_until_base)
        sorteadas == base.set
        ausentes == Balls \ sorteadas
        exc_s == _pick_exclusions(sorteadas, PoolExcDrawn, freq, delay)
        exc_a == _pick_exclusions(ausentes, PoolExcAbsent, freq, delay)
    IN Balls \ (exc_s \cup exc_a)

\* the s16 of build_aposta16_for_base
build_aposta16_for_base(base, history_until_base) ==
    LET pool20 == build_pool20_for_base(base, history_until_base)
        excluded4 == _pick_exclusions(pool20, S16Exc,
                                      _rank_frequency(history_until_base),
                                      _rank_delay(history_until_base))
    IN pool20 \ excluded4

\* the offsets 1..teimosinha_n of base_idx whose target exists and has at
\* least min_hits numbers of the s16; draws[t_idx] is the draw in position
\* t_idx + 1
WinningOffsets(ds, base_idx, teim, min_hits) ==
    LET s16 == build_aposta16_for_base(ds[base_idx],
                                       SubSeq(ds, 1, base_idx - 1))
    IN {off \in 1..teim :
           /\ base_idx + off < Len(ds)
           /\ Cardinality(s16 \cap ds[base_idx + off + 1].set) >= min_hits}

\* success_targets over base_idx in range(base_idx, n - 1), in loop order
RECURSIVE SuccessTargets(_, _, _, _)
SuccessTargets(ds, base_idx, teim, min_hits) ==
    IF base_idx >= Len(ds) - 1 THEN <<>>
    ELSE LET offs == WinningOffsets(ds, base_idx, teim, min_hits)
             first == CHOOSE o \in offs : \A o2 \in offs : o <= o2
         IN (IF offs = {} THEN <<>> ELSE <<base_idx + first>>)
            \o SuccessTargets(ds, base_idx + 1, teim, min_hits)

\* compute_aposta16_gate_stats with metric "concursos"; the lookback of 400
\* bases never binds at these sizes
compute_aposta16_gate_stats(ds, teim, min_hits, percentis) ==
    LET n == Len(ds)
    IN IF n < 3
       THEN [kind |-> "gate16", ok |-> FALSE, wins |-> 0, trials |-> 0,
             success_targets |-> <<>>, gaps |-> <<>>, gap_now |-> 0,
             faixa |-> <<0, 0>>, pass |-> FALSE]
       ELSE LET success_targets_sorted ==
                    Sorted(SuccessTargets(ds, 1, teim, min_hits))
                gaps == Gaps(success_targets_sorted)
                gap_now == IF success_targets_sorted # <<>>
                           THEN (n - 1) - success_targets_sorted[
                                              Len(success_targets_sorted)]
                           ELSE n - 1
                p_low == IF gaps # <<>> THEN _percentile(gaps, percentis[1])
                         ELSE 0
                p_high == IF gaps # <<>> THEN _percentile(gaps, percentis[2])
                          ELSE 0
            IN [kind |-> "gate16", ok |-> TRUE,
                wins |-> Len(success_targets_sorted), trials |-> n - 2,
                success_targets |-> success_targets_sorted, gaps |-> gaps,
                gap_now |-> gap_now, faixa |-> <<p_low, p_high>>,
                pass |-> 100 * gap_now >= p_low /\ 100 * gap_now <= p_high]

\* ---------------------------------------------------------------- store
NoReason == <<"none", 0>>

_campaign_id(start_concurso, created_utc) == <<start_concurso, created_utc>>

HasDraw(conc) == \E i \in DOMAIN draws : draws[i].concurso = conc

by_concurso(conc) == draws[CHOOSE i \in DOMAIN draws : draws[i].concurso = conc]

max_concurso == IF draws = <<>> THEN 0 ELSE draws[Len(draws)].concurso

Processed(daily) == {daily[i].concurso : i \in DOMAIN daily}

DayBest(games, d) == SetMax({_hits(games[k], d) : k \in DOMAIN games})

\* mutant of EvalRange: without the guard on the processed concursos
RECURSIVE EvalRange_reprocess(_, _, _, _)
EvalRange_reprocess(c, conc, end_idx, acc) ==
    IF conc > end_idx THEN acc
    ELSE IF ~HasDraw(conc)
         THEN EvalRange_reprocess(c, conc + 1, end_idx, acc)
    ELSE LET d == by_concurso(conc)
             day_best == DayBest(c.games, d)
             entry == [concurso |-> conc, data |-> d.data,
                       best_hits |-> day_best,
                       offset |-> conc - c.start_concurso]
         IN EvalRange_reprocess(c, conc + 1, end_idx,
                [acc EXCEPT !.daily = Append(acc.daily, entry)])

\* the loop of update_campaigns over conc in range(conc, end_idx + 1);
\* acc carries daily, best_hits, best_when and best_offset
RECURSIVE EvalRange(_, _, _, _)
EvalRange(c, conc, end_idx, acc) ==
    IF conc > end_idx THEN acc
    ELSE IF conc \in Processed(c.daily) \/ ~HasDraw(conc)
         THEN EvalRange(c, conc + 1, end_idx, acc)
    ELSE LET d == by_concurso(conc)
             day_best == DayBest(c.games, d)
             entry == [concurso |-> conc, data |-> d.data,
                       best_hits |-> day_best,
                       offset |-> conc - c.start_concurso]
             better == day_best > acc.best_hits
         IN EvalRange(c, conc + 1, end_idx,
                [daily |-> Append(acc.daily, entry),
                 best_hits |-> IF better THEN day_best ELSE acc.best_hits,
                 best_when |-> IF better THEN d.data ELSE acc.best_when,
                 best_offset |-> IF better THEN conc - c.start_concurso
                                 ELSE acc.best_offset])

\* mutant of EndIdx: every available concurso from the start on is evaluated
EndIdx_unbounded(start, teim) == max_concurso

\* end_idx = min(max_concurso, start + teimosinha - 1)
EndIdx(start, teim) == Min(max_concurso, start + teim - 1)

\* mutant of HitStop: the threshold itself does not close the campaign
HitStop_above(best_hits, stop) == best_hits > stop

\* best_hits >= min_hits_stop
HitStop(best_hits, stop) == best_hits >= stop

\* mutant of WindowDone: the newest concurso has reached end_idx
WindowDone_reached(daily, end_idx) == max_concurso >= end_idx

\* the check of concurso end_idx is in daily
WindowDone(daily, end_idx) ==
    \E i \in DOMAIN daily : daily[i].concurso = end_idx

\* mutant of UpdateOne: closed campaigns are evaluated like active ones
UpdateOne_any_status(c, teim, stop) ==
    IF DOMAIN c.games = {} \/ c.start_concurso <= 0
         THEN [c EXCEPT !.status = "closed",
                        !.closed_reason = <<"invalid_state", 0>>]
    ELSE LET start == c.start_concurso
             end_idx == EndIdx(start, teim)
             r == EvalRange(c, start, end_idx,
                    [daily |-> c.daily, best_hits |-> c.best_hits,
                     best_when |-> c.best_when, best_offset |-> c.best_offset])
             c1 == [c EXCEPT !.daily = r.daily, !.best_hits = r.best_hits,
                             !.best_when = r.best_when,
                             !.best_offset = r.best_offset]
         IN IF HitStop(r.best_hits, stop)
            THEN [c1 EXCEPT !.status = "closed",
                            !.closed_reason = <<"hit_stop", stop>>,
                            !.closed_at_concurso =
                                IF r.daily = <<>> THEN NoneVal
                                ELSE SetMax(Processed(r.daily))]
            ELSE IF WindowDone(r.daily, end_idx)
            THEN [c1 EXCEPT !.status = "closed",
                            !.closed_reason = <<"teimosinha_end", teim>>,
                            !.closed_at_concurso = end_idx]
            ELSE c1

\* the body of the loop of update_campaigns for one campaign
UpdateOne(c, teim, stop) ==
    IF c.status # "active" THEN c
    ELSE IF DOMAIN c.games = {} \/ c.start_concurso <= 0
         THEN [c EXCEPT !.status = "closed",
                        !.closed_reason = <<"invalid_state", 0>>]
    ELSE LET start == c.start_concurso
             end_idx == EndIdx(start, teim)
             r == EvalRange(c, start, end_idx,
                    [daily |-> c.daily, best_hits |-> c.best_hits,
                     best_when |-> c.best_when, best_offset |-> c.best_offset])
             c1 == [c EXCEPT !.daily = r.daily, !.best_hits = r.best_hits,
                             !.best_when = r.best_when,
                             !.best_offset = r.best_offset]
         IN IF HitStop(r.best_hits, stop)
            THEN [c1 EXCEPT !.status = "closed",
                            !.closed_reason = <<"hit_stop", stop>>,
                            !.closed_at_concurso =
                                IF r.daily = <<>> THEN NoneVal
                                ELSE SetMax(Processed(r.daily))]
            ELSE IF WindowDone(r.daily, end_idx)
            THEN [c1 EXCEPT !.status = "closed",
                            !.closed_reason = <<"teimosinha_end", teim>>,
                            !.closed_at_concurso = end_idx]
            ELSE c1

\* mutant of _save_campaign_state: the store is written without the stamp
_save_campaign_state_nostamp(st) == st

_save_campaign_state(st) == [st EXCEPT !.updated_at = now]

\* mutant of NewCampaign: the campaign is anchored at the last concurso
NewCampaign_at_last(last_concurso, games, teim, stop) ==
    [id |-> _campaign_id(last_concurso, now),
     status |-> "active",
     created_at |-> now,
     start_concurso |-> last_concurso,
     teimosinha_n |-> teim,
     min_hits_stop |-> stop,
     games |-> games,
     best_hits |-> 0,
     best_when |-> NoneVal,
     best_offset |-> NoneVal,
     daily |-> <<>>,
     closed_reason |-> NoReason,
     closed_at_concurso |-> NoneVal]

NewCampaign(last_concurso, games, teim, stop) ==
    [id |-> _campaign_id(last_concurso + 1, now),
     status |-> "active",
     created_at |-> now,
     start_concurso |-> last_concurso + 1,
     teimosinha_n |-> teim,
     min_hits_stop |-> stop,
     games |-> games,
     best_hits |-> 0,
     best_when |-> NoneVal,
     best_offset |-> NoneVal,
     daily |-> <<>>,
     closed_reason |-> NoReason,
     closed_at_concurso |-> NoneVal]

\* mutant of campaigns_append: the new campaign takes the place of the list
campaigns_append_replace(campaigns, campaign) == <<campaign>>

\* campaigns.append(campaign) of maybe_start_campaign
campaigns_append(campaigns, campaign) == Append(campaigns, campaign)

\* ---------------------------------------------------------------- actions
Init ==
    /\ \E s \in DrawSets : draws = <<[concurso |-> 1, data |-> 1, set |-> s]>>
    /\ gate_pass \in BOOLEAN
    /\ state = [version |-> 1, updated_at |-> NoneVal, campaigns |-> <<>>]
    /\ now = 0
    /\ pc = "idle"
    /\ teimosinha \in Teimosinhas
    /\ min_hits_stop \in MinHitsStops
    /\ gate_percentis = <<25, 75>>
    /\ stats = NoStats

\* a newer XLSX: one more draw, possibly skipping concursos
AppendDraw ==
    /\ pc = "idle"
    /\ Len(draws) < MaxDraws
    /\ \E k \in Skips, s \in DrawSets :
         LET conc == max_concurso + k
         IN draws' = Append(draws, [concurso |-> conc, data |-> conc, set |-> s])
    /\ gate_pass' \in BOOLEAN
    /\ UNCHANGED <<state, now, teimosinha, min_hits_stop, gate_percentis, stats>>
    /\ UNCHANGED pc

Tick ==
    /\ now < MaxClock
    /\ now' = now + 1
    /\ UNCHANGED <<draws, gate_pass, state, pc, teimosinha, min_hits_stop,
                   gate_percentis, stats>>

update_campaigns ==
    /\ pc = "idle"
    /\ gate_pass => Len(state.campaigns) < MaxCampaigns
    /\ state' = _save_campaign_state(
          [state EXCEPT !.campaigns =
              [i \in DOMAIN state.campaigns |->
                  UpdateOne(state.campaigns[i], teimosinha, min_hits_stop)]])
    /\ pc' = "updated"
    /\ UNCHANGED <<draws, gate_pass, now, teimosinha, min_hits_stop,
                   gate_percentis, stats>>

maybe_start_campaign ==
    /\ pc = "updated"
    /\ IF ~gate_pass THEN UNCHANGED state
       ELSE state' = _save_campaign_state(
               [state EXCEPT !.campaigns = campaigns_append(state.campaigns,
                   NewCampaign(max_concurso, build_abcd_games(draws),
                               teimosinha, min_hits_stop))])
    /\ pc' = "idle"
    /\ UNCHANGED <<draws, gate_pass, now, teimosinha, min_hits_stop,
                   gate_percentis, stats>>

Next == AppendDraw \/ Tick \/ update_campaigns \/ maybe_start_campaign

Spec == Init /\ [][Next]_vars

\* ------------------------------------------------- late rows of the XLSX
\* the store functions over an XLSX in which the row of a concurso that was
\* missing so far ("ainda nao chegou no XLSX") may turn up in a later download
InitFill ==
    /\ Init
    /\ teimosinha = 3
    /\ min_hits_stop = 3

\* a newer XLSX with the row of a missing concurso; load_draws_from_xlsx
\* sorts the rows by concurso
InsertDraw ==
    /\ pc = "idle"
    /\ \E conc \in 1..max_concurso, s \in DrawSets :
         /\ ~HasDraw(conc)
         /\ LET rows == Range(draws) \cup
                          {[concurso |-> conc, data |-> conc, set |-> s]}
            IN draws' = SortedSeq(rows, [d \in rows |-> d.concurso])
    /\ gate_pass' \in BOOLEAN
    /\ UNCHANGED <<state, now, pc, teimosinha, min_hits_stop, gate_percentis,
                   stats>>

NextFill == Next \/ InsertDraw

SpecFill == InitFill /\ [][NextFill]_vars

\* ------------------------------------------- runs with other arguments
\* the next run is started with another --teimosinha or --min_hits_stop
Reconfigure ==
    /\ pc = "idle"
    /\ teimosinha' \in Teimosinhas
    /\ min_hits_stop' \in MinHitsStops
    /\ <<teimosinha', min_hits_stop'>> # <<teimosinha, min_hits_stop>>
    /\ UNCHANGED <<draws, gate_pass, state, now, pc, gate_percentis, stats>>

NextConf == Next \/ Reconfigure

SpecConf == Init /\ [][NextConf]_vars

\* ------------------------------------------------------------- gate runs
\* SpecGate applies compute_abcd_gate_stats to every history of up to
\* MaxGateDraws draws, every window and every percentile pair
InitGate ==
    /\ draws = <<>>
    /\ gate_pass = FALSE
    /\ state = [version |-> 1, updated_at |-> NoneVal, campaigns |-> <<>>]
    /\ now = 0
    /\ pc = "idle"
    /\ teimosinha \in GateTeimosinhas
    /\ min_hits_stop \in MinHitsStops
    /\ gate_percentis \in GatePercentis
    /\ stats = NoStats

GateAppendDraw ==
    /\ Len(draws) < MaxGateDraws
    /\ \E s \in DrawSets :
         draws' = Append(draws, [concurso |-> Len(draws) + 1,
                                 data |-> Len(draws) + 1, set |-> s])
    /\ stats' = NoStats
    /\ UNCHANGED <<gate_pass, state, now, pc, teimosinha, min_hits_stop,
                   gate_percentis>>

GateCompute ==
    /\ stats = NoStats
    /\ stats' = compute_abcd_gate_stats(draws, teimosinha, min_hits_stop,
                                        gate_percentis)
    /\ gate_pass' = stats'.pass
    /\ UNCHANGED <<draws, state, now, pc, teimosinha, min_hits_stop,
                   gate_percentis>>

NextGate == GateAppendDraw \/ GateCompute

SpecGate == InitGate /\ [][NextGate]_vars

\* SpecWalk is SpecGate with one threshold and one percentile pair, for the
\* claims about the walk-forward loop itself
InitWalk ==
    /\ InitGate
    /\ min_hits_stop = 2
    /\ gate_percentis = <<25, 75>>

SpecWalk == InitWalk /\ [][NextGate]_vars

\* -------------------------------------------------- aposta16 gate runs
\* SpecS16 applies compute_aposta16_gate_stats to every history of up to
\* MaxGateDraws draws
InitS16 ==
    /\ InitGate
    /\ min_hits_stop = 2
    /\ gate_percentis = <<25, 75>>

S16Compute ==
    /\ stats = NoStats
    /\ stats' = compute_aposta16_gate_stats(draws, teimosinha, min_hits_stop,
                                            gate_percentis)
    /\ gate_pass' = stats'.pass
    /\ UNCHANGED <<draws, state, now, pc, teimosinha, min_hits_stop,
                   gate_percentis>>

NextS16 == GateAppendDraw \/ S16Compute

SpecS16 == InitS16 /\ [][NextS16]_vars

\* ------------------------------------------------------ cycle simulation
\* SpecCycles runs the loop of simulate_cycles_strategy in mode aposta16,
\* one contest per step: draws holds the history up to the current contest
\* and stats the loop state with the detalhe rows written so far.
MaxCycleDraws == 5

WaitsAfterWin == {0, 1}
WaitsAfterLoss == {0, 1}
PlayWindows == {1, 2}
CycleTeimosinhas == {0, 1}

\* the state before the first iteration
CycleStart(cfg) ==
    [kind |-> "cycles", cfg |-> cfg,
     in_play |-> cfg.wait_after_loss <= 0,
     play_left |-> IF cfg.wait_after_loss <= 0
                   THEN cfg.play_window + cfg.teimosinha_n ELSE 0,
     cool_left |-> 0,
     loss_streak |-> 0,
     activate_play_next |-> FALSE,
     teimosinha_cache |-> {},
     cached |-> FALSE,
     detalhe |-> <<>>]

\* one iteration of the loop: ds[i] is the base and ds[i + 1] the current
\* contest; teimosinha_cache is None while cached is FALSE
CycleIter(st, ds, i) ==
    LET cfg == st.cfg
        generated == build_aposta16_for_base(ds[i], SubSeq(ds, 1, i))
        reuse == st.in_play /\ cfg.teimosinha_n > 0 /\ st.cached
        cards_today == IF reuse THEN st.teimosinha_cache ELSE generated
        fill == ~reuse /\ st.in_play /\ cfg.teimosinha_n > 0
        cache1 == IF fill THEN generated ELSE st.teimosinha_cache
        cached1 == st.cached \/ fill
        h == Cardinality(cards_today \cap ds[i + 1].set)
        any_ge11_virtual == h >= MinPrizeHits
        \* a window armed by the previous contest starts here
        act == st.activate_play_next
        in_play2 == st.in_play \/ act
        play_left2 == IF act THEN cfg.play_window + cfg.teimosinha_n
                      ELSE st.play_left
        cached2 == IF act THEN FALSE ELSE cached1
        play_today == in_play2 /\ st.cool_left <= 0
        cool_left3 == IF in_play2 /\ st.cool_left > 0 THEN st.cool_left - 1
                      ELSE st.cool_left
        win_today == play_today /\ h >= MinPrizeHits
        play_left4 == IF play_today THEN play_left2 - 1 ELSE play_left2
        stop == win_today /\ cfg.stop_on_win
        in_play5 == IF stop THEN FALSE ELSE in_play2
        play_left5 == IF stop THEN 0 ELSE play_left4
        cool_left5 == IF stop THEN cfg.wait_after_win ELSE cool_left3
        loss_streak5 == IF stop THEN 0 ELSE st.loss_streak
        ended == play_today /\ play_left5 <= 0 /\ in_play5
        in_play6 == IF ended THEN FALSE ELSE in_play5
        cool_left6 == IF ended /\ cfg.periodic THEN cfg.wait_after_win
                      ELSE cool_left5
        loss_streak6 == IF ended /\ cfg.wait_after_loss > 0 THEN 0
                        ELSE loss_streak5
        cached6 == IF stop \/ ended THEN FALSE ELSE cached2
        observing == /\ cfg.wait_after_loss > 0
                     /\ ~in_play6
                     /\ ~play_today
                     /\ cool_left6 <= 0
        loss_streak7 == IF ~observing THEN loss_streak6
                        ELSE IF any_ge11_virtual THEN 0
                        ELSE loss_streak6 + 1
        row == [played_today |-> play_today,
                closed |-> IF stop THEN "win"
                           ELSE IF ended THEN "window" ELSE "none"]
    IN [kind |-> "cycles", cfg |-> cfg,
        in_play |-> in_play6,
        play_left |-> play_left5,
        cool_left |-> cool_left6,
        loss_streak |-> loss_streak7,
        activate_play_next |->
            IF observing /\ loss_streak7 >= cfg.wait_after_loss THEN TRUE
            ELSE st.activate_play_next /\ ~act,
        teimosinha_cache |-> IF cached6 THEN cache1 ELSE {},
        cached |-> cached6,
        detalhe |-> Append(st.detalhe, row)]

InitCycles ==
    /\ \E s \in DrawSets : draws = <<[concurso |-> 1, data |-> 1, set |-> s]>>
    /\ gate_pass = FALSE
    /\ state = [version |-> 1, updated_at |-> NoneVal, campaigns |-> <<>>]
    /\ now = 0
    /\ pc = "idle"
    /\ teimosinha \in CycleTeimosinhas
    /\ min_hits_stop = MinPrizeHits
    /\ gate_percentis = <<25, 75>>
    /\ \E w \in WaitsAfterWin, wl \in WaitsAfterLoss, pw \in PlayWindows,
          per \in BOOLEAN :
          stats = CycleStart([wait_after_win |-> w, wait_after_loss |-> wl,
                              play_window |-> pw, teimosinha_n |-> teimosinha,
                              periodic |-> per, stop_on_win |-> TRUE])

\* the next contest of the history goes through the loop body
CycleStep ==
    /\ Len(draws) <= MaxCycleDraws
    /\ \E s \in DrawSets :
         draws' = Append(draws, [concurso |-> Len(draws) + 1,
                                 data |-> Len(draws) + 1, set |-> s])
    /\ stats' = CycleIter(stats, draws', Len(draws))
    /\ UNCHANGED <<gate_pass, state, now, pc, teimosinha, min_hits_stop,
                   gate_percentis>>

NextCycles == CycleStep

SpecCycles == InitCycles /\ [][NextCycles]_vars

\* ------------------------------------------------------ percentile band
\* SpecPct applies the two _percentile calls of the gate to every list of
\* up to MaxGaps gaps and every pair of percentiles, in binary64
MaxGaps == 3

GapValues == 1..3

Percents == {0, 10, 25, 75, 90, 100}

RECURSIVE GapLists(_)
GapLists(n) ==
    IF n = 0 THEN {<<>>}
    ELSE LET S == GapLists(n - 1)
         IN S \cup {Append(g, v) : g \in {h \in S : Len(h) = n - 1},
                                   v \in GapValues}

InitPct ==
    /\ draws = <<>>
    /\ gate_pass = FALSE
    /\ state = [version |-> 1, updated_at |-> NoneVal, campaigns |-> <<>>]
    /\ now = 0
    /\ pc = "idle"
    /\ teimosinha = 2
    /\ min_hits_stop = 2
    /\ gate_percentis \in {pq \in Percents \X Percents : pq[1] <= pq[2]}
    /\ stats \in {[kind |-> "gaps", gaps |-> g] : g \in GapLists(MaxGaps) \ {<<>>}}

\* lo = float(_percentile(gaps, p_low)); hi = float(_percentile(gaps, p_high))
PercentileBand ==
    /\ stats.kind = "gaps"
    /\ stats' = [kind |-> "band", gaps |-> stats.gaps,
                 lo |-> _percentile_f64(stats.gaps, gate_percentis[1]),
                 hi |-> _percentile_f64(stats.gaps, gate_percentis[2])]
    /\ UNCHANGED <<draws, gate_pass, state, now, pc, teimosinha,
                   min_hits_stop, gate_percentis>>

NextPct == PercentileBand

SpecPct == InitPct /\ [][NextPct]_vars

\* -------------------------------------------------------- the run of main
\* In SpecMain `state` is the content of docs/state/abcd_campaigns.json as
\* a run finds it:
\*   [kind |-> "missing"]   no file
\*   [kind |-> "text"]      text that json.loads rejects
\*   [kind |-> "value"]     a JSON value that is not an object
\*   [kind |-> "object", version, updated_at, campaigns]
\* where campaigns is [list |-> FALSE] or [list |-> TRUE, items |-> s] and
\* an item is [dict |-> FALSE] or [dict |-> TRUE, c |-> a campaign].
MaxMainDraws == 10

MainTeimosinhas == {2, 10}

DefaultStore ==
    [kind |-> "object", version |-> 1, updated_at |-> NoneVal,
     campaigns |-> [list |-> TRUE, items |-> <<>>]]

_load_campaign_state(file) ==
    IF file.kind \in {"missing", "text"} THEN DefaultStore ELSE file

\* _save_campaign_state on the loaded object
StampFile(st) == [st EXCEPT !.updated_at = now]

\* state.get("campaigns", []) followed by the isinstance check
CampaignItems(st) == IF st.campaigns.list THEN st.campaigns.items ELSE <<>>

\* update_campaigns, from the load of the file to the save
update_campaigns_on(file, teim, stop) ==
    LET st == _load_campaign_state(file)
    IN IF st.kind # "object"
       THEN [exit |-> "AttributeError", file |-> file]
       ELSE LET items == CampaignItems(st)
                updated == [i \in DOMAIN items |->
                    IF ~items[i].dict THEN items[i]
                    ELSE [items[i] EXCEPT !.c = UpdateOne(@, teim, stop)]]
            IN [exit |-> "ok",
                file |-> StampFile([st EXCEPT !.campaigns =
                                        [list |-> TRUE, items |-> updated]])]

\* maybe_start_campaign on the object update_campaigns returned
maybe_start_campaign_on(st, gp, teim, stop) ==
    IF ~gp THEN st
    ELSE StampFile([st EXCEPT !.campaigns =
            [list |-> TRUE,
             items |-> Append(CampaignItems(st),
                 [dict |-> TRUE,
                  c |-> NewCampaign(max_concurso, build_abcd_games(draws),
                                    teim, stop)])]])

\* compute_abcd_gate_stats of abcd_runner.py: the first pass of its loop
\* calls build_abcd_games with a keyword the function does not take
runner_compute_abcd_gate_stats(ds, teim, min_hits, percentis) ==
    IF Len(ds) < MinDraws
    THEN [kind |-> "gate", keys |-> {"pass", "reason"}, pass |-> FALSE,
          reason |-> "Poucos concursos"]
    ELSE IF Bases(ds, teim) # {}
    THEN [kind |-> "raise", exc |-> "TypeError"]
    ELSE [kind |-> "gate", keys |-> {"pass", "reason"}, pass |-> FALSE,
          reason |-> "Sem sucessos suficientes"]

\* the keys of the gate dict that main reads before it touches the store
MainReads == {"percentis", "lo", "hi", "gap_atual", "gate_pass"}

\* mutant of main: the campaigns are updated before the gate is computed
main_update_first(file, ds, teim, stop, percentis) ==
    IF ds = <<>> THEN [exit |-> "SystemExit", file |-> file, gate |-> NoStats]
    ELSE LET u == update_campaigns_on(file, teim, stop)
             g == runner_compute_abcd_gate_stats(ds, teim, stop, percentis)
         IN IF u.exit # "ok" THEN [exit |-> u.exit, file |-> u.file, gate |-> NoStats]
            ELSE IF g.kind = "raise"
            THEN [exit |-> g.exc, file |-> u.file, gate |-> g]
            ELSE IF ~(MainReads \subseteq g.keys)
            THEN [exit |-> "KeyError", file |-> u.file, gate |-> g]
            ELSE [exit |-> "ok", gate |-> g,
                  file |-> maybe_start_campaign_on(u.file, g.gate_pass, teim, stop)]

\* main: the exit of the run and the file it leaves
main(file, ds, teim, stop, percentis) ==
    IF ds = <<>> THEN [exit |-> "SystemExit", file |-> file, gate |-> NoStats]
    ELSE LET g == runner_compute_abcd_gate_stats(ds, teim, stop, percentis)
         IN IF g.kind = "raise"
            THEN [exit |-> g.exc, file |-> file, gate |-> g]
            ELSE IF ~(MainReads \subseteq g.keys)
            THEN [exit |-> "KeyError", file |-> file, gate |-> g]
            ELSE LET u == update_campaigns_on(file, teim, stop)
                 IN IF u.exit # "ok"
                    THEN [exit |-> u.exit, file |-> u.file, gate |-> g]
                    ELSE [exit |-> "ok", gate |-> g,
                          file |-> maybe_start_campaign_on(u.file, g.gate_pass,
                                                           teim, stop)]

FirstDraw == [concurso |-> 1, data |-> 1, set |-> {1, 2, 3}]

\* a campaign opened by an earlier run on the first draw
SeedCampaign == NewCampaign(1, build_abcd_games(<<FirstDraw>>), 2, 2)

ObjectFile(items) ==
    [kind |-> "object", version |-> 1, updated_at |-> NoneVal,
     campaigns |-> [list |-> TRUE, items |-> items]]

StoreFiles ==
    {[kind |-> "missing"], [kind |-> "text"], [kind |-> "value"],
     [kind |-> "object", version |-> 1, updated_at |-> NoneVal,
      campaigns |-> [list |-> FALSE]],
     ObjectFile(<<[dict |-> TRUE, c |-> SeedCampaign]>>),
     ObjectFile(<<[dict |-> FALSE], [dict |-> TRUE, c |-> SeedCampaign]>>)}

InitMain ==
    /\ now = 0
    /\ draws = <<>>
    /\ gate_pass = FALSE
    /\ state \in StoreFiles
    /\ pc = "idle"
    /\ teimosinha \in MainTeimosinhas
    /\ min_hits_stop = 2
    /\ gate_percentis = <<25, 75>>
    /\ stats = NoStats

MainAppendDraw ==
    /\ pc = "idle"
    /\ Len(draws) < MaxMainDraws
    /\ \E s \in DrawSets :
         draws' = Append(draws, [concurso |-> Len(draws) + 1,
                                 data |-> Len(draws) + 1, set |-> s])
    /\ UNCHANGED <<gate_pass, state, now, pc, teimosinha, min_hits_stop,
                   gate_percentis, stats>>

\* one scheduled run of main
MainRun ==
    /\ pc = "idle"
    /\ LET r == main(state, draws, teimosinha, min_hits_stop, gate_percentis)
       IN /\ state' = r.file
          /\ stats' = [kind |-> "main", exit |-> r.exit, gate |-> r.gate]
    /\ pc' = "exited"
    /\ UNCHANGED <<draws, gate_pass, now, teimosinha, min_hits_stop,
                   gate_percentis>>

\* update_campaigns called on the file as it is
UpdateRun ==
    /\ pc = "idle"
    /\ LET r == update_campaigns_on(state, teimosinha, min_hits_stop)
       IN /\ state' = r.file
          /\ stats' = [kind |-> "update_campaigns", exit |-> r.exit,
                       gate |-> NoStats]
    /\ pc' = "exited"
    /\ UNCHANGED <<draws, gate_pass, now, teimosinha, min_hits_stop,
                   gate_percentis>>

\* the process has ended; the next run starts from the file
NextRun ==
    /\ pc = "exited"
    /\ pc' = "idle"
    /\ stats' = NoStats
    /\ UNCHANGED <<draws, gate_pass, state, now, teimosinha, min_hits_stop,
                   gate_percentis>>

NextMain == MainAppendDraw \/ MainRun \/ UpdateRun \/ NextRun

SpecMain == InitMain /\ [][NextMain]_vars

\* ================================================================ claims
Campaigns == state.campaigns

Won(c) == c.status = "closed" /\ c.closed_reason[1] = "hit_stop"

Expired(c) == c.status = "closed" /\ c.closed_reason[1] = "teimosinha_end"

Qualifying(c) == {i \in DOMAIN c.daily : c.daily[i].best_hits >= c.min_hits_stop}

FirstQualifying(c) ==
    c.daily[CHOOSE i \in Qualifying(c) :
                \A j \in Qualifying(c) : c.daily[i].concurso <= c.daily[j].concurso]

AllTerminal == \A i \in DOMAIN Campaigns : Campaigns[i].status # "active"

\* C1: the store never holds two campaigns with the same start_concurso.
C1_NoDuplicateStart ==
    \A i, j \in DOMAIN Campaigns :
        i # j => Campaigns[i].start_concurso # Campaigns[j].start_concurso

\* C2: a campaign closed as teimosinha_end has one check for each of its
\* teimosinha_n window concursos, and while the newest concurso is below
\* start_concurso + teimosinha_n - 1 and no check reached min_hits_stop the
\* campaign is active.
C2_ExpiredOnlyAfterFullWindow ==
    \A i \in DOMAIN Campaigns :
        LET c == Campaigns[i]
        IN /\ Expired(c) => Len(c.daily) = c.teimosinha_n
           /\ (max_concurso < c.start_concurso + c.teimosinha_n - 1
                 /\ Qualifying(c) = {}) => c.status = "active"

\* C3: in a campaign closed by a hit, the largest checked concurso is the
\* earliest one whose hits reached min_hits_stop.
C3_NoCheckAfterWin ==
    \A i \in DOMAIN Campaigns :
        LET c == Campaigns[i]
        IN Won(c) => SetMax(Processed(c.daily)) = FirstQualifying(c).concurso

\* C4: in a campaign closed by a hit, best_hits, best_when, best_offset and
\* closed_at_concurso are those of the earliest qualifying check.
C4_OutcomeIsFirstQualifying ==
    \A i \in DOMAIN Campaigns :
        LET c == Campaigns[i]
        IN Won(c) =>
            /\ c.best_hits = FirstQualifying(c).best_hits
            /\ c.best_when = FirstQualifying(c).data
            /\ c.best_offset = FirstQualifying(c).offset
            /\ c.closed_at_concurso = FirstQualifying(c).concurso

\* C5: right after update_campaigns, no campaign whose window lies wholly
\* below the newest concurso is still active.
C5_ElapsedWindowCloses ==
    pc = "updated" =>
        \A i \in DOMAIN Campaigns :
            LET c == Campaigns[i]
            IN max_concurso > c.start_concurso + c.teimosinha_n - 1
                   => c.status # "active"

\* C6: a campaign that is not active is never changed again by any step.
C6_TerminalAbsorbing ==
    [][\A i \in DOMAIN Campaigns :
          Campaigns[i].status # "active" =>
              /\ i \in DOMAIN state'.campaigns
              /\ state'.campaigns[i] = Campaigns[i]]_vars

\* a campaign closed before a later campaign, with checks of its own, started
C6_Witness ==
    \E i, j \in DOMAIN Campaigns :
        /\ Campaigns[i].status = "closed"
        /\ Campaigns[i].closed_at_concurso # NoneVal
        /\ Campaigns[i].closed_at_concurso < Campaigns[j].start_concurso
        /\ Campaigns[j].daily # <<>>

\* C7: a second update_campaigns on the same draws adds no check: updating
\* an updated campaign leaves its daily list as it is, and right after
\* update_campaigns another update would add nothing.
C7_UpdateIdempotent ==
    \A i \in DOMAIN Campaigns :
        LET c == Campaigns[i]
            c1 == UpdateOne(c, teimosinha, min_hits_stop)
        IN /\ UpdateOne(c1, teimosinha, min_hits_stop).daily = c1.daily
           /\ pc = "updated" => c1.daily = c.daily

\* update_campaigns has run and left an active campaign that holds checks
C7_Witness ==
    /\ pc = "updated"
    /\ \E i \in DOMAIN Campaigns :
          Campaigns[i].status = "active" /\ Campaigns[i].daily # <<>>

RerunOfTerminalStore ==
    /\ pc = "idle"
    /\ pc' = "updated"
    /\ Campaigns # <<>>
    /\ AllTerminal
    /\ ~gate_pass

\* C8 as stated: a run over a store of terminal campaigns, the gate not
\* passing, leaves the whole persisted store, updated_at included, as it was.
C8_RerunIdentical == [][RerunOfTerminalStore => state' = state]_vars

\* C8 amended: such a run leaves version and campaigns as they were and
\* sets updated_at to the time of the run.
C8_RerunSameCampaigns ==
    [][RerunOfTerminalStore =>
          /\ state'.campaigns = state.campaigns
          /\ state'.version = state.version
          /\ state'.updated_at = now]_vars

\* a saved store of terminal campaigns about to be re-run at a later second
C8_Witness ==
    /\ pc = "idle"
    /\ ~gate_pass
    /\ Campaigns # <<>>
    /\ AllTerminal
    /\ state.updated_at # NoneVal
    /\ now > state.updated_at

Computed == stats # NoStats

C10_FewSuccessesInsufficient ==
    (Computed /\ Len(stats.success_idx) < 2) =>
        /\ stats.gaps = <<>>
        /\ ~stats.pass
        /\ stats.reason = "Sem sucessos suficientes"

\* C10 amended: with fewer than 2 successes the gap series is empty and the
\* gate fails; the reason is that of insufficient successes when there are
\* at least MinDraws draws, and that of too few draws otherwise.
C10_FewSuccessesFail ==
    (Computed /\ Len(stats.success_idx) < 2) =>
        /\ stats.gaps = <<>>
        /\ ~stats.pass
        /\ stats.reason = IF Len(draws) < MinDraws THEN "Poucos concursos"
                          ELSE "Sem sucessos suficientes"

\* a long enough history with exactly one success
C10_Witness ==
    /\ Computed
    /\ Len(draws) >= MinDraws
    /\ Len(stats.success_idx) = 1
    /\ stats.reason = "Sem sucessos suficientes"

\* C11: whenever main computes the gate, the computation returns a decision,
\* and a decision that does not pass carries pass = false and a reason.
C11_GateAlwaysDecides ==
    (pc = "exited" /\ stats.kind = "main" /\ stats.exit # "SystemExit") =>
        /\ stats.gate.kind = "gate"
        /\ ~stats.gate.pass => {"pass", "reason"} \subseteq stats.gate.keys

\* the other outcome of a draw
Flip(d) == [d EXCEPT !.set = CHOOSE s \in DrawSets : s # d.set]

\* histories that agree with ds on the Python indices below i: one event
\* of index i or above changed, every such event changed, and the events
\* after the window of base i dropped
Futures(ds, i) ==
    {[j \in DOMAIN ds |-> IF j = k THEN Flip(ds[j]) ELSE ds[j]] :
        k \in (i + 1)..Len(ds)}
    \cup {[j \in DOMAIN ds |-> IF j >= i + 1 THEN Flip(ds[j]) ELSE ds[j]]}
    \cup {SubSeq(ds, 1, i + teimosinha)}

\* C12: the strategy of base i is handed exactly draws[0..i-1], and a
\* history that differs only at indices i and above gives base i the same
\* games.
C12_NoLookahead ==
    Computed =>
        \A i \in DOMAIN stats.walk :
            /\ stats.walk[i].history = SubSeq(draws, 1, i)
            /\ \A alt \in Futures(draws, i) :
                   WalkRow(alt, i, teimosinha).games = stats.walk[i].games

\* the games of a base differ from those of the next base, whose history
\* holds one more event: the event of index i does move the strategy
C12_Witness ==
    /\ Computed
    /\ \E i \in DOMAIN stats.walk :
          /\ i + 1 \in DOMAIN stats.walk
          /\ stats.walk[i].games # stats.walk[i + 1].games

C14_EarlyExitBelowWindow ==
    Computed =>
        /\ stats.reason = "Poucos concursos" <=> Len(draws) < teimosinha + 2
        /\ Len(draws) < teimosinha + 2 => (stats.walk = <<>> /\ stats.gaps = <<>>)

\* C14 amended: the early exit is taken, with no rows, no gaps and a failed
\* gate, exactly when len(draws) < 10, whatever the window.
C14_EarlyExitBelowTen ==
    Computed =>
        /\ stats.reason = "Poucos concursos" <=> Len(draws) < 10
        /\ Len(draws) < 10 =>
              /\ stats.walk = <<>>
              /\ stats.rows = 0
              /\ stats.gaps = <<>>
              /\ ~stats.pass

\* nine draws: enough for several windows of two, and still the early exit
C14_Witness ==
    /\ Computed
    /\ Len(draws) = 9
    /\ teimosinha = 2
    /\ stats.reason = "Poucos concursos"
    /\ stats.walk = <<>>

FSame(x, y) == FLeq(x, y) /\ FLeq(y, x)

\* C15: the percentile 0 of a list of gaps is its minimum, the percentile
\* 100 its maximum, and for p_low <= p_high the band has lo <= hi.
C15_PercentileMonotone ==
    stats.kind = "band" =>
        LET xs == Sorted(stats.gaps)
        IN /\ gate_percentis[1] = 0 => FSame(stats.lo, FromInt(xs[1]))
           /\ gate_percentis[2] = 100 => FSame(stats.hi, FromInt(xs[Len(xs)]))
           /\ FLeq(stats.lo, stats.hi)

\* the concursos arrived one index at a time
Contiguous == \A i \in DOMAIN draws : draws[i].concurso = i

\* C16: with the concursos arriving one index at a time, a campaign that has
\* not reached min_hits_stop and whose window still has concursos to come is
\* active when a campaign with a larger start_concurso has just been opened,
\* so that the two are active together.
C16_EarlierStillActive ==
    \A i, j \in DOMAIN Campaigns :
        LET c == Campaigns[i]
            d == Campaigns[j]
        IN (/\ Contiguous
            /\ c.start_concurso < d.start_concurso
            /\ d.status = "active"
            /\ d.daily = <<>>
            /\ Qualifying(c) = {}
            /\ max_concurso < c.start_concurso + c.teimosinha_n - 1)
           => c.status = "active"

\* a run of main that ended in an exception
MainAborts ==
    /\ pc = "idle"
    /\ pc' = "exited"
    /\ stats'.kind = "main"
    /\ stats'.exit # "ok"

\* C17: a run of main in which the gate computation or the game generation
\* raises leaves the store file as it found it.
C17_AbortLeavesStore == [][MainAborts => state' = state]_vars

\* the gate computation raised, over a file that holds an active campaign
\* whose window draws have arrived
C17_Witness ==
    /\ pc = "exited"
    /\ stats.kind = "main"
    /\ stats.exit = "TypeError"
    /\ state.kind = "object"
    /\ \E i \in DOMAIN CampaignItems(state) :
          /\ CampaignItems(state)[i].dict
          /\ CampaignItems(state)[i].c.status = "active"
          /\ HasDraw(CampaignItems(state)[i].c.start_concurso)

\* the content of the file is not a store of campaign records
Malformed(file) ==
    \/ file.kind \in {"text", "value"}
    \/ /\ file.kind = "object"
       /\ \/ ~file.campaigns.list
          \/ \E i \in DOMAIN file.campaigns.items : ~file.campaigns.items[i].dict

\* C18: update_campaigns on a malformed file does not raise, and goes on
\* with the empty default store, which is what it saves.
C18_MalformedRecovered ==
    [][(/\ pc = "idle"
        /\ pc' = "exited"
        /\ stats'.kind = "update_campaigns"
        /\ Malformed(state))
       => /\ stats'.exit = "ok"
          /\ state' = StampFile(DefaultStore)]_vars

\* C19: every campaign in the store before a step of a run is in the store
\* after it, with the same id and the same start_concurso, active or closed.
C19_NeverDeleted ==
    [][\A i \in DOMAIN state.campaigns :
          \E j \in DOMAIN state'.campaigns :
              /\ state'.campaigns[j].id = state.campaigns[i].id
              /\ state'.campaigns[j].start_concurso
                     = state.campaigns[i].start_concurso]_vars

\* a closed campaign is still in the store after a later run opened
\* another one next to it
C19_Witness ==
    /\ pc = "idle"
    /\ Len(Campaigns) >= 2
    /\ Campaigns[1].status = "closed"
    /\ Campaigns[2].status = "active"
    /\ Campaigns[1].closed_at_concurso < Campaigns[2].start_concurso

\* C20: in every store state the checks of a campaign hold at most one entry
\* per concurso and are in strictly increasing order of concurso.
C20_ChecksIncreasing ==
    \A i \in DOMAIN Campaigns :
        \A a, b \in DOMAIN Campaigns[i].daily :
            a < b => Campaigns[i].daily[a].concurso
                         < Campaigns[i].daily[b].concurso

\* C21: a campaign is created active, with no checks, anchored at the last
\* concurso plus one, and no step of a run changes the games of a campaign
\* that is already in the store.
C21_SelectionFrozen ==
    [][/\ \A i \in DOMAIN state.campaigns :
             state'.campaigns[i].games = state.campaigns[i].games
       /\ Len(state'.campaigns) > Len(state.campaigns) =>
             LET c == state'.campaigns[Len(state'.campaigns)]
             IN /\ Len(state'.campaigns) = Len(state.campaigns) + 1
                /\ c.status = "active"
                /\ c.daily = <<>>
                /\ c.start_concurso = max_concurso + 1
                /\ DOMAIN c.games # {}]_vars

\* a campaign that has been advanced by a later run still holds games that
\* the strategy would no longer produce from the current draws
C21_Witness ==
    \E i \in DOMAIN Campaigns :
        /\ Campaigns[i].daily # <<>>
        /\ Campaigns[i].games # build_abcd_games(draws)

C23_SingleWrite ==
    [][(pc = "idle" /\ pc' = "updated" /\ gate_pass)
       => state'.campaigns = state.campaigns]_vars

\* C24: a campaign is evaluated against the teimosinha_n and min_hits_stop
\* stored in it: no check lies after start_concurso + teimosinha_n - 1, and
\* a campaign closed on a hit has reached its own min_hits_stop.
C24_StoredConfigGoverns ==
    \A i \in DOMAIN Campaigns :
        LET c == Campaigns[i]
        IN /\ \A k \in DOMAIN c.daily :
                 c.daily[k].concurso <= c.start_concurso + c.teimosinha_n - 1
           /\ Won(c) => c.best_hits >= c.min_hits_stop

\* C25: the aposta16 gate does not pass while its gap series is empty
\* (fewer than two successes).
C25_S16FewSuccessesFail ==
    (stats.kind = "gate16" /\ stats.gaps = <<>>) => ~stats.pass

\* C26: with wait_after_loss <= 0, after a contest that closes the play
\* window (a win with stop_on_win, or play_left used up in periodic mode)
\* with more than wait_after_win contests left, a later contest is played.
C26_PlayResumes ==
    (stats.kind = "cycles" /\ stats.cfg.wait_after_loss <= 0) =>
        \A i \in DOMAIN stats.detalhe :
            (/\ \/ stats.detalhe[i].closed = "win"
                \/ stats.detalhe[i].closed = "window" /\ stats.cfg.periodic
             /\ Len(stats.detalhe) - i > stats.cfg.wait_after_win)
            => \E j \in DOMAIN stats.detalhe :
                   j > i /\ stats.detalhe[j].played_today

\* the last eligible base, len(draws) - teimosinha_n, is a success
LastEligibleWon ==
    /\ stats.kind = "gate"
    /\ (Len(draws) - teimosinha) \in Range(stats.success_idx)

\* C27: when the last eligible base is itself a success the gate does not
\* pass, for any percentile pair; with a gap series the current gap is 0
\* and the low end of the band is at least 1.
C27_ZeroGapFails ==
    LastEligibleWon =>
        /\ ~stats.pass
        /\ stats.gaps # <<>> =>
              /\ stats.gap_atual = 0
              /\ stats.faixa[1] >= 100

\* the last eligible base is a success, there is a gap series, and the
\* band is the widest one
C27_Witness ==
    /\ LastEligibleWon
    /\ stats.gaps # <<>>
    /\ gate_percentis = <<0, 100>>

\* C28: whenever the gate has a gap series, every success index is at most
\* len(draws) - teimosinha_n, and the current gap is defined, non-negative
\* and measured from the greatest success index.
C28_CurrentGapDefined ==
    (stats.kind = "gate" /\ stats.gaps # <<>>) =>
        /\ \A x \in Range(stats.success_idx) : x <= Len(draws) - teimosinha
        /\ stats.gap_atual # NoneVal
        /\ stats.gap_atual >= 0
        /\ stats.gap_atual =
               (Len(draws) - teimosinha) - SetMax(Range(stats.success_idx))

\* a gap series with the last success some bases before the last eligible
\* one, for a window of two
C28_Witness ==
    /\ stats.kind = "gate"
    /\ stats.gaps # <<>>
    /\ stats.gap_atual > 0
    /\ teimosinha = 2

\* the greatest best_hits over the checks of a campaign, 0 without checks
MaxDailyHits(c) ==
    IF c.daily = <<>> THEN 0
    ELSE SetMax({c.daily[k].best_hits : k \in DOMAIN c.daily})

\* C29: in every store state, best_hits of every campaign is the greatest hit count
\* over its checks, and no campaign with a check of at least min_hits_stop
\* hits is active.
C29_BestHitsIsMax ==
    \A i \in DOMAIN Campaigns :
        /\ Campaigns[i].best_hits = MaxDailyHits(Campaigns[i])
        /\ Campaigns[i].status = "active" => Qualifying(Campaigns[i]) = {}

\* a campaign with two checks, the second one with more hits than the
\* first and enough to close it
C29_Witness ==
    /\ pc = "idle"
    /\ \E i \in DOMAIN Campaigns :
          /\ Len(Campaigns[i].daily) >= 2
          /\ Campaigns[i].daily[1].best_hits < Campaigns[i].daily[2].best_hits
          /\ Qualifying(Campaigns[i]) # {}

\* C30: every check of a campaign is for a concurso that is in the draws and
\* lies in start_concurso .. start_concurso + teimosinha_n - 1, its offset
\* is the distance from start_concurso, and a campaign holds at most
\* teimosinha_n checks.
C30_ChecksInsideWindow ==
    \A i \in DOMAIN Campaigns :
        LET c == Campaigns[i]
        IN /\ Len(c.daily) <= c.teimosinha_n
           /\ \A k \in DOMAIN c.daily :
                 /\ HasDraw(c.daily[k].concurso)
                 /\ c.daily[k].concurso >= c.start_concurso
                 /\ c.daily[k].concurso <= c.start_concurso + c.teimosinha_n - 1
                 /\ c.daily[k].offset = c.daily[k].concurso - c.start_concurso

\* update_campaigns has just run over a campaign that has a check, with a
\* concurso after the end of its window in the draws
C30_Witness ==
    /\ pc = "updated"
    /\ \E i \in DOMAIN Campaigns :
          /\ Campaigns[i].status = "active"
          /\ Campaigns[i].daily # <<>>
          /\ max_concurso > Campaigns[i].start_concurso
                                + Campaigns[i].teimosinha_n - 1

TypeOK ==
    /\ pc \in {"idle", "updated"}
    /\ now \in 0..MaxClock
    /\ Len(state.campaigns) <= MaxCampaigns
====
